---------------------------- MODULE Spec2Model ----------------------------
(***************************************************************************)
(* Elo rating engine of streamlit_app.py: expected_score, update_elo,      *)
(* clean_team_name and the fold calculate_elo_ratings.                     *)
(*                                                                         *)
(* Numbers.  Python's float is IEEE-754 binary floating point: every       *)
(* operation returns the exact result rounded to the nearest representable *)
(* value, ties to even.  The model keeps exactly that rule and scales the  *)
(* significand down from 53 bits to Precision bits, so that all            *)
(* intermediate integers fit TLC's 32-bit arithmetic.  A number is a       *)
(* record [m, e] standing for m * 2^e, normalised (m = 0 and e = 0, or     *)
(* 2^(Precision-1) <= |m| < 2^Precision), so equal numbers are equal       *)
(* records.  Python ints that take part (1500, 32, 1, 0) are exactly       *)
(* representable and are written in the same form.  Infinities, NaN        *)
(* ratings, subnormals and the sign of zero are not reached inside the     *)
(* bounds and are not modelled.                                            *)
(***************************************************************************)
EXTENDS Integers, Sequences, FiniteSets, TLC

\* Significand bits of the model's floating point (binary64 has 53).
Precision == 11

Abs(n) == IF n < 0 THEN -n ELSE n

\* Number of bits of a natural number below 2^31.
BitLen(n) == CHOOSE k \in 0..31 : n < 2^k /\ (k = 0 \/ n >= 2^(k-1))

Zero == [m |-> 0, e |-> 0]

\* M * 2^E rounded to Precision bits, round-half-to-even.
Round(M, E) ==
    IF M = 0 THEN Zero
    ELSE LET a == Abs(M)
             s == IF M < 0 THEN -1 ELSE 1
             k == BitLen(a) - Precision
         IN IF k <= 0
            THEN [m |-> s * a * 2^(-k), e |-> E + k]
            ELSE LET q    == a \div 2^k
                     r    == a % 2^k
                     half == 2^(k-1)
                     up   == r > half \/ (r = half /\ q % 2 = 1)
                     q2   == IF up THEN q + 1 ELSE q
                 IN IF q2 = 2^Precision
                    THEN [m |-> s * 2^(Precision-1), e |-> E + k + 1]
                    ELSE [m |-> s * q2, e |-> E + k]

FromInt(n) == Round(n, 0)
Half == Round(1, -1)
FNeg(x) == [m |-> -x.m, e |-> x.e]
FAbs(x) == [m |-> Abs(x.m), e |-> x.e]

\* x + y.  When the exponents are more than Precision+1 apart the smaller
\* operand is below a quarter of the larger one's last place and the sum
\* rounds to the larger operand.
FAdd(x, y) ==
    IF x.m = 0 THEN y
    ELSE IF y.m = 0 THEN x
    ELSE LET hi  == IF x.e >= y.e THEN x ELSE y
             lo  == IF x.e >= y.e THEN y ELSE x
             gap == hi.e - lo.e
         IN IF gap >= Precision + 2 THEN hi
            ELSE Round(hi.m * 2^gap + lo.m, lo.e)

FSub(x, y) == FAdd(x, FNeg(y))

FMul(x, y) == Round(x.m * y.m, x.e + y.e)

\* x / y for y # 0: the quotient to Precision+2 bits and a sticky bit.
FDiv(x, y) ==
    IF x.m = 0 THEN Zero
    ELSE LET s  == IF (x.m < 0) = (y.m < 0) THEN 1 ELSE -1
             a  == Abs(x.m) * 2^(Precision + 2)
             b  == Abs(y.m)
             q  == a \div b
             st == IF a % b = 0 THEN 0 ELSE 1
         IN Round(s * (2 * q + st), x.e - y.e - Precision - 3)

FLe(x, y) == FSub(x, y).m <= 0

\* math.pow(10, y), as a libm computes it: 10^y = 2^t with t = y*log2(10),
\* t split into its integer part n and fraction f, 2^f from a polynomial in
\* 14-bit fixed point, the result rounded.  pow(10, 0) is exactly 1.
\* Arguments of magnitude 2^(Precision-1) or more overflow and are outside
\* the bounds.
Pow10(y) ==
    LET t  == IF y.e >= 0 THEN y.m * 54426 * 2^(y.e)
              ELSE IF -y.e > 30 THEN (IF y.m < 0 THEN -1 ELSE 0)
              ELSE (y.m * 54426) \div 2^(-y.e)
        n  == t \div 16384
        f  == t % 16384
        p6 == 3
        p5 == 22 + (f * p6) \div 16384
        p4 == 158 + (f * p5) \div 16384
        p3 == 909 + (f * p4) \div 16384
        p2 == 3936 + (f * p3) \div 16384
        p1 == 11357 + (f * p2) \div 16384
    IN Round(16384 + (f * p1) \div 16384, n - 14)

(***************************************************************************)
(* Elo rating functions                                                    *)
(***************************************************************************)
K == 32
InitialRating == 1500

\* def expected_score(rating_a, rating_b)
expected_score(rating_a, rating_b) ==
    FDiv(FromInt(1),
         FAdd(FromInt(1),
              Pow10(FDiv(FSub(rating_b, rating_a), FromInt(400)))))

\* update_elo with the away side's expected score left out of its update.
update_eloAwayNotMirrored(rating_a, rating_b, actual_score_a) ==
    LET expected_a   == expected_score(rating_a, rating_b)
        new_rating_a == FAdd(rating_a,
                             FMul(FromInt(K), FSub(actual_score_a, expected_a)))
        new_rating_b == FAdd(rating_b,
                             FMul(FromInt(K),
                                  FSub(FSub(FromInt(1), actual_score_a),
                                       expected_a)))
    IN <<new_rating_a, new_rating_b>>

\* def update_elo(rating_a, rating_b, actual_score_a, k=32): <<new_a, new_b>>
update_elo(rating_a, rating_b, actual_score_a) ==
    LET expected_a   == expected_score(rating_a, rating_b)
        new_rating_a == FAdd(rating_a,
                             FMul(FromInt(K), FSub(actual_score_a, expected_a)))
        new_rating_b == FAdd(rating_b,
                             FMul(FromInt(K),
                                  FSub(FSub(FromInt(1), actual_score_a),
                                       FSub(FromInt(1), expected_a))))
    IN <<new_rating_a, new_rating_b>>


(***************************************************************************)
(* clean_team_name.  A string is a sequence of one-character strings; the   *)
(* letters outside Latin-1 are spelled "s-cedilla", "S-cedilla", "I-dot".  *)
(***************************************************************************)
prefixes ==
    << <<"G", "A", "Ü", " ">>,
       <<"D", "N", "D", " ", "L", ".", " ">>,
       <<"M", "i", "r", "a", "c", "l", "e", " ">>,
       <<"C", "h", "i", "n", "a", " ", "B", "a", "z", "a", "a", "r", " ">>,
       <<"T", "r", "e", "m", "e", "s-cedilla", "e", "l", "i", " ", "H", ".", " ">> >>

suffixes ==
    << <<" ", "T", "S", "K">>,
       <<" ", "G", "S", "K">>,
       <<" ", "S", "K">>,
       <<" ", "D", "S", "K">>,
       <<" ", "Y", "S", "K">>,
       <<" ", "G", "B", "S", "K">>,
       <<" ", "S-cedilla", "H", "S", "K">>,
       <<" ", "I-dot", "Y", "S", "K">>,
       <<" ", "K", "K", "S", "K">> >>

\* str.replace(old, ""): every non-overlapping occurrence of old, found in
\* one scan from the left, is deleted; the text joined by a deletion is not
\* scanned again.
RECURSIVE Remove(_, _)
Remove(str, old) ==
    IF Len(str) < Len(old) THEN str
    ELSE IF SubSeq(str, 1, Len(old)) = old
         THEN Remove(SubSeq(str, Len(old) + 1, Len(str)), old)
         ELSE <<Head(str)>> \o Remove(Tail(str), old)

\* for old in olds[i..]: str = str.replace(old, "")
RECURSIVE RemoveEach(_, _, _)
RemoveEach(str, olds, i) ==
    IF i > Len(olds) THEN str
    ELSE RemoveEach(Remove(str, olds[i]), olds, i + 1)

\* str.strip(): leading and trailing blanks dropped.
RECURSIVE LStrip(_)
LStrip(str) ==
    IF str # <<>> /\ Head(str) = " " THEN LStrip(Tail(str)) ELSE str

RECURSIVE RStrip(_)
RStrip(str) ==
    IF str # <<>> /\ str[Len(str)] = " "
    THEN RStrip(SubSeq(str, 1, Len(str) - 1)) ELSE str

Strip(str) == RStrip(LStrip(str))

\* clean_team_name without the loop over the suffixes.
clean_team_namePrefixesOnly(name) == Strip(RemoveEach(name, prefixes, 1))

\* def clean_team_name(team_name)
clean_team_name(name) ==
    Strip(RemoveEach(RemoveEach(name, prefixes, 1), suffixes, 1))

(***************************************************************************)
(* Inputs of the fold                                                      *)
(***************************************************************************)
\* Completed matches a run may process.
MaxMatches == 2

\* Ratings handed to update_elo: 0..MaxRatingInput and, around the initial
\* rating, 1500 + 4*d for d in -MaxRatingInput..MaxRatingInput.
MaxRatingInput == 8

\* Longest team name handed to clean_team_name.
MaxNameLen == 7

\* Raw team names of the dataset: "GAÜ Foo TSK", "Foo", "Bar SK".
RawFooSponsored == <<"G", "A", "Ü", " ", "F", "o", "o", " ", "T", "S", "K">>
RawFoo == <<"F", "o", "o">>
RawBar == <<"B", "a", "r", " ", "S", "K">>
RawNames == {RawFooSponsored, RawFoo, RawBar}

\* The pairings <<home_team, away_team>> the dataset may hold; in the last
\* one both names clean to "Foo".
Fixtures ==
    {<<RawFooSponsored, RawBar>>, <<RawFoo, RawBar>>, <<RawBar, RawFoo>>,
     <<RawFooSponsored, RawFoo>>}

Seasons == {"2024"}
WeekKeys == {"1", "2"}

\* JSON values a score key may hold: ints (a negative one among them), a
\* string, NaN and null.  In kind "str" val orders the strings.
IntScore(n) == [kind |-> "int", val |-> n]
StrScore == [kind |-> "str", val |-> 1]
NaNScore == [kind |-> "nan", val |-> 0]
NullScore == [kind |-> "none", val |-> 0]
Absent == [kind |-> "absent", val |-> 0]

\* A match is a dict: a score that is absent is a key the dict does not have.
MatchKeys(hs, as) ==
    {"home_team", "away_team"}
        \cup (IF hs = Absent THEN {} ELSE {"home_score"})
        \cup (IF as = Absent THEN {} ELSE {"away_score"})

MakeMatch(h, a, hs, as) ==
    [k \in MatchKeys(hs, as) |->
        CASE k = "home_team" -> h
          [] k = "away_team" -> a
          [] k = "home_score" -> hs
          [] k = "away_score" -> as]

\* Every pairing with a home win, a draw and an away win.
ValidMatches ==
    {MakeMatch(f[1], f[2], IntScore(p[1]), IntScore(p[2])) :
        f \in Fixtures, p \in {<<2, 1>>, <<1, 1>>, <<1, 2>>}}

\* Foo v Bar with the home score, the away score or both missing.
IncompleteMatches ==
    {MakeMatch(RawFoo, RawBar, p[1], p[2]) :
        p \in {<<Absent, IntScore(1)>>, <<IntScore(1), Absent>>,
               <<Absent, Absent>>}}

\* Foo v Bar with a home score that is present and is no valid score.
MalformedMatches ==
    {MakeMatch(RawFoo, RawBar, hs, IntScore(0)) :
        hs \in {IntScore(-1), StrScore, NaNScore, NullScore}}

Matches == ValidMatches \cup IncompleteMatches \cup MalformedMatches

NoMatch == [k \in {} |-> 0]
Unset == "<unset>"

(***************************************************************************)
(* Python's comparisons on score values                                    *)
(***************************************************************************)
IsNumber(v) == v.kind \in {"int", "nan"}

\* a > b raises TypeError: None against anything, a str against a number.
GtRaises(a, b) ==
    ~ ((IsNumber(a) /\ IsNumber(b)) \/ (a.kind = "str" /\ b.kind = "str"))

\* a > b where it does not raise; every comparison with NaN is False.
Gt(a, b) ==
    /\ a.kind # "nan" /\ b.kind # "nan"
    /\ a.val > b.val

\* a == b never raises; NaN equals nothing, values of two kinds differ.
Eq(a, b) ==
    /\ a.kind = b.kind
    /\ a.kind # "nan"
    /\ a.val = b.val

\* line 54 with a draw scored as a home defeat.
actual_score_ofDrawAsLoss(home_score, away_score) ==
    IF Gt(home_score, away_score) THEN FromInt(1) ELSE FromInt(0)

\* line 54: 1 if home_score > away_score else 0.5 if == else 0
actual_score_of(home_score, away_score) ==
    IF Gt(home_score, away_score) THEN FromInt(1)
    ELSE IF Eq(home_score, away_score) THEN Half
    ELSE FromInt(0)

(***************************************************************************)
(* calculate_elo_ratings                                                   *)
(***************************************************************************)
VARIABLES
    elo_ratings,     \* dict: cleaned team name -> rating
    elo_history,     \* dict: cleaned team name -> sequence of <<timestamp, rating>>
    season,          \* season of the season_data being traversed
    week,            \* key of the week being traversed
    weeks_iterated,  \* keys of the season's weeks dict already yielded
    timestamp,       \* f"{season} - {week}"
    match,           \* the match of the current iteration
    completed,       \* the completed matches processed so far, in order
    pc,              \* "run", "done" (returned) or "raised" (TypeError)
    rating_a, rating_b, actual_score_a, new_ratings,  \* a call of update_elo
    team_name, cleaned                                \* a call of clean_team_name

foldVars == <<elo_ratings, elo_history, season, week, weeks_iterated,
              timestamp, match, completed, pc>>
eloVars == <<rating_a, rating_b, actual_score_a, new_ratings>>
cleanVars == <<team_name, cleaned>>
vars == <<foldVars, eloVars, cleanVars>>

EmptyDict == [k \in {} |-> 0]

\* d[key] = value
Put(d, key, value) == (key :> value) @@ d

\* f"{season} - {week}"
Label(s, w) == s \o " - " \o w

\* lines 47-52: if team not in elo_ratings: seed rating and history
SeedRating(ratings, team) ==
    IF team \in DOMAIN ratings THEN ratings
    ELSE Put(ratings, team, FromInt(InitialRating))

\* SeedHistory with a new team's history started empty, without the 1500 entry.
SeedHistoryWithoutBaseline(ratings, history, team, ts) ==
    IF team \in DOMAIN ratings THEN history
    ELSE Put(history, team, <<>>)

SeedHistory(ratings, history, team, ts) ==
    IF team \in DOMAIN ratings THEN history
    ELSE Put(history, team, << <<ts, FromInt(InitialRating)>> >>)

\* StoreRatings with the two assignments in the other order.
StoreRatingsAwayFirst(ratings, home, away, new) ==
    Put(Put(ratings, away, new[2]), home, new[1])

\* lines 59-62: store both ratings, then append to both histories
StoreRatings(ratings, home, away, new) ==
    Put(Put(ratings, home, new[1]), away, new[2])

AppendHistory(history, home, away, new, ts) ==
    LET h1 == Put(history, home, Append(history[home], <<ts, new[1]>>))
    IN Put(h1, away, Append(h1[away], <<ts, new[2]>>))

IdleElo ==
    /\ rating_a = Zero /\ rating_b = Zero
    /\ actual_score_a = Zero /\ new_ratings = <<>>

IdleClean == team_name = <<>> /\ cleaned = Unset

Init ==
    /\ elo_ratings = EmptyDict
    /\ elo_history = EmptyDict
    /\ season = Unset /\ week = Unset /\ timestamp = Unset
    /\ weeks_iterated = {}
    /\ match = NoMatch
    /\ completed = <<>>
    /\ pc = "run"
    /\ IdleElo /\ IdleClean

\* for season_data in data: season = season_data["season"]
NextSeason(s) ==
    /\ pc = "run"
    /\ season' = s
    /\ week' = Unset
    /\ weeks_iterated' = {}
    /\ UNCHANGED <<elo_ratings, elo_history, timestamp, match, completed, pc>>
    /\ UNCHANGED <<eloVars, cleanVars>>

\* for week, matches in weeks.items(): timestamp = f"{season} - {week}"
NextWeek(w) ==
    /\ pc = "run"
    /\ season # Unset
    /\ w \notin weeks_iterated
    /\ week' = w
    /\ weeks_iterated' = weeks_iterated \cup {w}
    /\ timestamp' = Label(season, w)
    /\ UNCHANGED <<elo_ratings, elo_history, season, match, completed, pc>>
    /\ UNCHANGED <<eloVars, cleanVars>>

\* SkipMatch with the teams seeded before the scores are looked for.
SkipMatchSeeding(m) ==
    /\ pc = "run"
    /\ week # Unset
    /\ "home_score" \notin DOMAIN m \/ "away_score" \notin DOMAIN m
    /\ match' = m
    /\ \E home_team \in {clean_team_name(m.home_team)},
          away_team \in {clean_team_name(m.away_team)} :
         \E ratings1 \in {SeedRating(elo_ratings, home_team)},
            history1 \in {SeedHistory(elo_ratings, elo_history,
                                      home_team, timestamp)} :
           /\ elo_ratings' = SeedRating(ratings1, away_team)
           /\ elo_history' = SeedHistory(ratings1, history1,
                                         away_team, timestamp)
    /\ UNCHANGED <<completed, pc>>
    /\ UNCHANGED <<season, week, weeks_iterated, timestamp>>
    /\ UNCHANGED <<eloVars, cleanVars>>

\* lines 39-40: a match without both scores is skipped
SkipMatch(m) ==
    /\ pc = "run"
    /\ week # Unset
    /\ "home_score" \notin DOMAIN m \/ "away_score" \notin DOMAIN m
    /\ match' = m
    /\ UNCHANGED <<elo_ratings, elo_history, completed, pc>>
    /\ UNCHANGED <<season, week, weeks_iterated, timestamp>>
    /\ UNCHANGED <<eloVars, cleanVars>>

\* lines 42-62: a match with both scores; the teams are seeded before the
\* scores are compared, so a TypeError of the comparison leaves them seeded.
ProcessMatch(m) ==
    /\ pc = "run"
    /\ week # Unset
    /\ "home_score" \in DOMAIN m /\ "away_score" \in DOMAIN m
    /\ Len(completed) < MaxMatches
    /\ match' = m
    /\ \E home_team \in {clean_team_name(m.home_team)},
          away_team \in {clean_team_name(m.away_team)} :
         \E ratings1 \in {SeedRating(elo_ratings, home_team)},
            history1 \in {SeedHistory(elo_ratings, elo_history,
                                      home_team, timestamp)} :
           \E ratings2 \in {SeedRating(ratings1, away_team)},
              history2 \in {SeedHistory(ratings1, history1,
                                        away_team, timestamp)} :
             IF GtRaises(m.home_score, m.away_score)
             THEN /\ elo_ratings' = ratings2
                  /\ elo_history' = history2
                  /\ pc' = "raised"
                  /\ UNCHANGED completed
             ELSE \E new \in {update_elo(ratings2[home_team],
                                         ratings2[away_team],
                                         actual_score_of(m.home_score,
                                                         m.away_score))} :
                    /\ elo_ratings' =
                         StoreRatings(ratings2, home_team, away_team, new)
                    /\ elo_history' =
                         AppendHistory(history2, home_team, away_team,
                                       new, timestamp)
                    /\ completed' =
                         Append(completed,
                                [timestamp |-> timestamp,
                                 home_team |-> m.home_team,
                                 away_team |-> m.away_team])
                    /\ UNCHANGED pc
    /\ UNCHANGED <<season, week, weeks_iterated, timestamp>>
    /\ UNCHANGED <<eloVars, cleanVars>>

\* for match in matches: the body of the loop, lines 39-62
IterateMatch(m) == SkipMatch(m) \/ ProcessMatch(m)

\* return elo_ratings, elo_history
Return ==
    /\ pc = "run"
    /\ pc' = "done"
    /\ UNCHANGED <<elo_ratings, elo_history, season, week, weeks_iterated,
                   timestamp, match, completed>>
    /\ UNCHANGED <<eloVars, cleanVars>>

Next ==
    \/ \E s \in Seasons : NextSeason(s)
    \/ \E w \in WeekKeys : NextWeek(w)
    \/ \E m \in Matches : IterateMatch(m)
    \/ Return

Spec == Init /\ [][Next]_vars

(***************************************************************************)
(* update_elo on its own: one call on each input of a grid                 *)
(***************************************************************************)
IdleFold ==
    /\ elo_ratings = EmptyDict /\ elo_history = EmptyDict
    /\ season = Unset /\ week = Unset /\ timestamp = Unset
    /\ weeks_iterated = {} /\ match = NoMatch /\ completed = <<>>
    /\ pc = "idle"

RatingInputs ==
    {FromInt(r) : r \in 0..MaxRatingInput}
        \cup {FromInt(InitialRating + 4 * d) :
                 d \in -MaxRatingInput..MaxRatingInput}

Outcomes == {FromInt(1), Half, FromInt(0)}

InitElo ==
    /\ rating_a \in RatingInputs
    /\ rating_b \in RatingInputs
    /\ actual_score_a \in Outcomes
    /\ new_ratings = <<>>
    /\ IdleFold /\ IdleClean

CallUpdateElo ==
    /\ new_ratings = <<>>
    /\ new_ratings' = update_elo(rating_a, rating_b, actual_score_a)
    /\ UNCHANGED <<rating_a, rating_b, actual_score_a>>
    /\ UNCHANGED <<foldVars, cleanVars>>

NextElo == CallUpdateElo

SpecElo == InitElo /\ [][NextElo]_vars

(***************************************************************************)
(* clean_team_name on its own: a name is typed in, then cleaned            *)
(***************************************************************************)
Alphabet == {"X", " ", "S", "K", "T"}

InitClean ==
    /\ team_name = <<>>
    /\ cleaned = Unset
    /\ IdleFold /\ IdleElo

TypeChar(c) ==
    /\ cleaned = Unset
    /\ Len(team_name) < MaxNameLen
    /\ team_name' = Append(team_name, c)
    /\ UNCHANGED cleaned
    /\ UNCHANGED <<foldVars, eloVars>>

CallClean ==
    /\ cleaned = Unset
    /\ cleaned' = clean_team_name(team_name)
    /\ UNCHANGED team_name
    /\ UNCHANGED <<foldVars, eloVars>>

NextClean ==
    \/ \E c \in Alphabet : TypeChar(c)
    \/ CallClean

SpecClean == InitClean /\ [][NextClean]_vars

(***************************************************************************)
(* Properties                                                              *)
(***************************************************************************)
Last(seq) == seq[Len(seq)]

\* The normalized name of every raw name of the inputs.
CleanedNames == [name \in RawNames |-> clean_team_name(name)]

HomeOf(m) == CleanedNames[m.home_team]
AwayOf(m) == CleanedNames[m.away_team]

\* The team took part in the completed match c.
Plays(c, team) == HomeOf(c) = team \/ AwayOf(c) = team

\* Index in completed of the team's first completed match.
FirstMatch(team) ==
    CHOOSE i \in 1..Len(completed) :
        /\ Plays(completed[i], team)
        /\ \A j \in 1..(i - 1) : ~ Plays(completed[j], team)

\* This step processed a completed match to its end (lines 42-62).
ProcessedStep == completed' # completed

\* A team's rating and history as lines 47-52 leave them.
SeededRating(team) ==
    IF team \in DOMAIN elo_ratings THEN elo_ratings[team]
    ELSE FromInt(InitialRating)

SeededHistory(team) ==
    IF team \in DOMAIN elo_history THEN elo_history[team]
    ELSE << <<timestamp, FromInt(InitialRating)>> >>

\* C1: the rating map and the history map have the same keys, and every
\* team's current rating is the rating of the last entry of its history,
\* also after a match whose two names clean to the same team.
C1_RatingIsLastHistoryEntry ==
    /\ DOMAIN elo_ratings = DOMAIN elo_history
    /\ \A team \in DOMAIN elo_ratings :
         /\ Len(elo_history[team]) >= 1
         /\ elo_ratings[team] = Last(elo_history[team])[2]

\* C1 witness: the last completed match was a decided match of a team with
\* itself.
C1_Witness ==
    /\ Len(completed) >= 1
    /\ HomeOf(Last(completed)) = AwayOf(Last(completed))
    /\ elo_ratings[HomeOf(Last(completed))] # FromInt(InitialRating)

\* C2 (as claimed): a completed match appends exactly one entry, labelled
\* with the match's timestamp, to the history of each participating team,
\* updates only their ratings and leaves every other team alone; a team's
\* history is 1 longer than the number of completed matches it took part in.
C2_OneAppendPerParticipant ==
    /\ [][ProcessedStep =>
            LET home == HomeOf(match')
                away == AwayOf(match')
            IN /\ DOMAIN elo_history' = DOMAIN elo_history \cup {home, away}
               /\ \A team \in {home, away} :
                    /\ Len(elo_history'[team]) = Len(SeededHistory(team)) + 1
                    /\ SubSeq(elo_history'[team], 1, Len(SeededHistory(team)))
                         = SeededHistory(team)
                    /\ Last(elo_history'[team])
                         = <<timestamp, elo_ratings'[team]>>
               /\ \A team \in DOMAIN elo_history \ {home, away} :
                    /\ elo_history'[team] = elo_history[team]
                    /\ elo_ratings'[team] = elo_ratings[team]]_vars
    /\ [](pc # "raised" =>
            \A team \in DOMAIN elo_history :
                Len(elo_history[team]) =
                    1 + Cardinality({i \in 1..Len(completed) :
                                        Plays(completed[i], team)}))

\* C3: an incomplete match changes neither map, and as long as no completed
\* match has been met both maps are empty.
C3_IncompleteMatchIsNoOp ==
    /\ [][(/\ match' # NoMatch
           /\ "home_score" \notin DOMAIN match' \/ "away_score" \notin DOMAIN match')
          => /\ elo_ratings' = elo_ratings
             /\ elo_history' = elo_history]_vars
    /\ []((completed = <<>> /\ pc \in {"run", "done"})
            => elo_ratings = EmptyDict /\ elo_history = EmptyDict)

\* C3 witness: the fold has returned after meeting an incomplete match last,
\* with teams in the maps.
C3_Witness ==
    /\ pc = "done"
    /\ match # NoMatch
    /\ "away_score" \notin DOMAIN match
    /\ elo_ratings # EmptyDict

\* C4: every team's first history entry is 1500 at the timestamp of the
\* first completed match the team appears in, it is followed by that match's
\* update, and it is never modified or removed.
C4_FirstEntryIsBaseline ==
    /\ [](pc # "raised" =>
            \A team \in DOMAIN elo_history :
                /\ \E i \in 1..Len(completed) : Plays(completed[i], team)
                /\ elo_history[team][1] =
                     <<completed[FirstMatch(team)].timestamp,
                       FromInt(InitialRating)>>
                /\ Len(elo_history[team]) >= 2
                /\ elo_history[team][2][1] = elo_history[team][1][1])
    /\ [][\A team \in DOMAIN elo_history :
            /\ team \in DOMAIN elo_history'
            /\ elo_history'[team][1] = elo_history[team][1]]_vars

\* C4 witness: a team whose first completed match is the second one, under
\* another timestamp than the first.
C4_Witness ==
    /\ Len(completed) = 2
    /\ completed[1].timestamp # completed[2].timestamp
    /\ \E team \in DOMAIN elo_history : FirstMatch(team) = 2

\* Rounding allowance of the zero-sum identity: 2 * eps * (64 + |a| + |b|),
\* eps = 2^(1 - Precision) the spacing of the numbers at 1.
Tolerance(a, b) ==
    FMul(Round(1, 2 - Precision),
         FAdd(FromInt(64), FAdd(FAbs(a), FAbs(b))))

\* C5 (as claimed): new_rating_a + new_rating_b == rating_a + rating_b.
C5_ZeroSumExact ==
    new_ratings # <<>> =>
        FAdd(new_ratings[1], new_ratings[2]) = FAdd(rating_a, rating_b)

\* C5 (amended): new_rating_a + new_rating_b equals rating_a + rating_b up
\* to rounding, the difference being at most 2 * eps * (64 + |a| + |b|).
C5_ZeroSumWithinRounding ==
    new_ratings # <<>> =>
        FLe(FAbs(FSub(FAdd(new_ratings[1], new_ratings[2]),
                      FAdd(rating_a, rating_b))),
            Tolerance(rating_a, rating_b))

\* C5 witness: a call whose results do not add up exactly.
C5_Witness ==
    /\ new_ratings # <<>>
    /\ FAdd(new_ratings[1], new_ratings[2]) # FAdd(rating_a, rating_b)

\* C6 (as claimed): cleaning a cleaned name changes nothing.
C6_CleanIsIdempotent ==
    cleaned # Unset => clean_team_name(cleaned) = cleaned

\* A score value that is a non-negative number.
ValidScore(v) == v.kind = "int" /\ v.val >= 0

\* C7 (as claimed): a match whose present scores are not both valid makes
\* the fold raise; it is never processed with the fold carrying on or
\* returning.
C7_MalformedScoreRaises ==
    (/\ match # NoMatch
     /\ "home_score" \in DOMAIN match /\ "away_score" \in DOMAIN match
     /\ ~ (ValidScore(match.home_score) /\ ValidScore(match.away_score)))
    => pc = "raised"

\* The identity the claim gives each raw name: "Foo" or "Bar".
KeyFoo == <<"F", "o", "o">>
KeyBar == <<"B", "a", "r">>
IdentityOf(raw) == IF raw \in {RawFooSponsored, RawFoo} THEN KeyFoo ELSE KeyBar

\* Number of sides of completed matches played under a raw name of team.
Sides(team) ==
    Cardinality({i \in 1..Len(completed) :
                    IdentityOf(completed[i].home_team) = team})
    + Cardinality({i \in 1..Len(completed) :
                      IdentityOf(completed[i].away_team) = team})

\* C8: the keys of both maps are the identities of the raw names met in
\* completed matches, and one history per identity holds an entry for every
\* side played under any of its raw names.
C8_OneIdentityPerTeam ==
    pc # "raised" =>
        /\ DOMAIN elo_ratings =
             {IdentityOf(completed[i].home_team) : i \in 1..Len(completed)}
               \cup {IdentityOf(completed[i].away_team) : i \in 1..Len(completed)}
        /\ DOMAIN elo_history = DOMAIN elo_ratings
        /\ \A team \in DOMAIN elo_history :
             Len(elo_history[team]) = 1 + Sides(team)

\* C8 witness: "GAÜ Foo TSK" and "Foo" played one match each against Bar.
C8_Witness ==
    /\ Len(completed) = 2
    /\ completed[1].home_team = RawFooSponsored
    /\ completed[2].home_team = RawFoo
    /\ completed[1].away_team = RawBar /\ completed[2].away_team = RawBar
    /\ Len(elo_history[KeyFoo]) = 3

\* C9: in a completed match of two distinct teams that hold the same rating
\* R, a home win gives R+16 and R-16, a draw leaves both at R, an away win
\* gives R-16 and R+16; the histories grow by these ratings.
C9_EqualRatingsMove16 ==
    [][(/\ ProcessedStep
        /\ match'.home_score.kind = "int" /\ match'.away_score.kind = "int"
        /\ HomeOf(match') # AwayOf(match')
        /\ SeededRating(HomeOf(match')) = SeededRating(AwayOf(match')))
       => LET home == HomeOf(match')
              away == AwayOf(match')
              R    == SeededRating(home)
              hs   == match'.home_score.val
              as   == match'.away_score.val
              up   == FAdd(R, FromInt(16))
              down == FSub(R, FromInt(16))
              newHome == IF hs > as THEN up ELSE IF hs = as THEN R ELSE down
              newAway == IF hs > as THEN down ELSE IF hs = as THEN R ELSE up
          IN /\ elo_ratings'[home] = newHome
             /\ elo_ratings'[away] = newAway
             /\ elo_history'[home] =
                  Append(SeededHistory(home), <<timestamp, newHome>>)
             /\ elo_history'[away] =
                  Append(SeededHistory(away), <<timestamp, newAway>>)]_vars

\* C9 witness: Foo and Bar drew their first match and Foo won the second.
C9_Witness ==
    /\ Len(completed) = 2
    /\ KeyFoo \in DOMAIN elo_history /\ KeyBar \in DOMAIN elo_history
    /\ Len(elo_history[KeyFoo]) = 3 /\ Len(elo_history[KeyBar]) = 3
    /\ elo_history[KeyFoo][2][2] = FromInt(1500)
    /\ elo_history[KeyFoo][3][2] = FromInt(1516)
    /\ elo_history[KeyBar][3][2] = FromInt(1484)

\* Sum of the ratings of a set of teams.
RECURSIVE SumRatings(_)
SumRatings(teams) ==
    IF teams = {} THEN Zero
    ELSE LET team == CHOOSE t \in teams : TRUE
         IN FAdd(elo_ratings[team], SumRatings(teams \ {team}))

\* C10 (as claimed): the ratings add up to 1500 times the number of teams.
C10_PointsConserved ==
    SumRatings(DOMAIN elo_ratings)
        = FromInt(InitialRating * Cardinality(DOMAIN elo_ratings))
=============================================================================
